---------------------------- MODULE Spec2Model ----------------------------
(***************************************************************************)
(* A model of nchp (src/nchp/app.py): the stream-specification parser,    *)
(* the default-target normalisation, the option store with its three      *)
(* layers (defaults, config file, command line), the synthesis of the     *)
(* rendering context and the launch of nginx on a temporary file.         *)
(*                                                                         *)
(* Strings are sequences of tokens.  A token stands for a fixed run of    *)
(* characters ("localhost", "http", ":", ...); no two tokens overlap, so  *)
(* a substring search for 'localhost' on the characters is a search for   *)
(* the token "localhost" on the sequence.  '' is the empty sequence.      *)
(***************************************************************************)
EXTENDS Integers, Sequences, FiniteSets, TLC

VARIABLES
    pc,          \* position of the process: "new", "initialized", ... or "call"
    environ,     \* os.environ as read at import (app.py:88, 94)
    argv,        \* the command line, as the option -> value mapping it denotes
    config_file_contents, \* what the config file on disk sets
    opts,        \* the traits of the NCHPApp object
    cli_config,  \* Application.cli_config, kept by parse_command_line
    context,     \* the rendering context of build_nginx_conf, once built
    conf,        \* the rendered document
    tmp,         \* the NamedTemporaryFile of start
    proc,        \* the process: its image, argv, environment, exit status
    stdout,      \* what has been printed
    log,         \* the calls start has made so far, in order
    call         \* a call of a pure function: its name, argument and result

vars == <<pc, environ, argv, config_file_contents, opts, cli_config, context,
          conf, tmp, proc, stdout, log, call>>

(***************************************************************************)
(* Bounds of the model.                                                    *)
(***************************************************************************)
\* The longest stream-specification string, in tokens ("80=80;80=x" is 7).
MaxLen == 7

\* The most options the command line sets, besides --config.
MaxCliArgs == 1

\* The most options the config file sets.
MaxFileKeys == 1

\* The longest URL of the exhaustive part of the URL inputs, in tokens.
MaxUrlLen == 4

(***************************************************************************)
(* Strings.                                                                *)
(***************************************************************************)
\* str.find(c): the first index of token c in s, 0 when absent (1-based).
Find(s, c) ==
    IF \E i \in 1..Len(s) : s[i] = c
    THEN CHOOSE i \in 1..Len(s) : s[i] = c /\ \A j \in 1..(i - 1) : s[j] # c
    ELSE 0

\* str.split(sep): always at least one piece; '' splits to [''].
RECURSIVE Split(_, _)
Split(s, sep) ==
    LET i == Find(s, sep)
    IN  IF i = 0 THEN <<s>>
        ELSE <<SubSeq(s, 1, i - 1)>> \o Split(SubSeq(s, i + 1, Len(s)), sep)

\* str.replace(old, new) for a one-token old.
Replace(s, old, new) == [i \in 1..Len(s) |-> IF s[i] = old THEN new ELSE s[i]]

Count(s, c) == Cardinality({i \in 1..Len(s) : s[i] = c})

\* s[:n]
Take(s, n) == SubSeq(s, 1, IF n < Len(s) THEN n ELSE Len(s))

(***************************************************************************)
(* parse_proxy_streams_string (app.py:12-20).                              *)
(***************************************************************************)
EmptyMap == <<>>

\* The store guarded by "if proxy_port not in streams": the first entry wins.
StoreEntry_FirstWins(streams, proxy_port, target) ==
    [k \in DOMAIN streams \cup {proxy_port} |->
        IF k \in DOMAIN streams THEN streams[k] ELSE target]

\* streams[proxy_port] = target
StoreEntry(streams, proxy_port, target) ==
    [k \in DOMAIN streams \cup {proxy_port} |->
        IF k = proxy_port THEN target ELSE streams[k]]

\* The except clause with the exception let through: nothing is returned.
ExceptHandler_Reraise(s, streams, e) ==
    [raised |-> TRUE, streams |-> EmptyMap, printed |-> <<>>]

\* except Exception as e: print(...); then the return of line 20.
ExceptHandler(s, streams, e) ==
    [raised |-> FALSE, streams |-> streams,
     printed |-> <<[text |-> "Badly formatted proxy streams string",
                    string |-> s, error |-> e]>>]

\* The for loop: unpacking mapping.split('=') into two names raises
\* ValueError unless there are exactly two pieces.
RECURSIVE ParseLoop(_, _, _, _)
ParseLoop(s, mappings, i, streams) ==
    IF i > Len(mappings)
    THEN [raised |-> FALSE, streams |-> streams, printed |-> <<>>]
    ELSE LET parts == Split(mappings[i], "=")
         IN  IF Len(parts) < 2
             THEN ExceptHandler(s, streams, "not enough values to unpack")
             ELSE IF Len(parts) > 2
             THEN ExceptHandler(s, streams, "too many values to unpack")
             ELSE ParseLoop(s, mappings, i + 1,
                            StoreEntry(streams, parts[1], parts[2]))

parse_proxy_streams_string(s) == ParseLoop(s, Split(s, ";"), 1, EmptyMap)

(***************************************************************************)
(* urllib.parse.urlsplit and urlunsplit, as build_nginx_conf calls them    *)
(* (app.py:238-243).                                                       *)
(***************************************************************************)
LetterTokens == {"http", "HTTP", "my", "localhost"}

\* scheme_chars: letters, digits and "+-."
SchemeTokens == LetterTokens \cup {"8", "127.0.0.1"}

\* str.lower()
LowerToken(t) == IF t = "HTTP" THEN "http" ELSE t

Lower(s) == [i \in 1..Len(s) |-> LowerToken(s[i])]

\* The schemes of uses_netloc that the tokens can spell.
UsesNetloc == {<<"http">>}

\* The first index >= start of a token of delims, Len(s) + 1 when none.
FirstOf(s, delims, start) ==
    IF \E i \in start..Len(s) : s[i] \in delims
    THEN CHOOSE i \in start..Len(s) :
            s[i] \in delims /\ \A j \in start..(i - 1) : s[j] \notin delims
    ELSE Len(s) + 1

urlsplit(url) ==
    LET i == Find(url, ":")
        hasScheme == /\ i > 1
                     /\ url[1] \in LetterTokens
                     /\ \A j \in 1..(i - 1) : url[j] \in SchemeTokens
        scheme == IF hasScheme THEN Lower(SubSeq(url, 1, i - 1)) ELSE <<>>
        u1 == IF hasScheme THEN SubSeq(url, i + 1, Len(url)) ELSE url
        hasNetloc == Len(u1) >= 2 /\ u1[1] = "/" /\ u1[2] = "/"
        delim == FirstOf(u1, {"/", "?", "#"}, 3)
        netloc == IF hasNetloc THEN SubSeq(u1, 3, delim - 1) ELSE <<>>
        u2 == IF hasNetloc THEN SubSeq(u1, delim, Len(u1)) ELSE u1
        h == Find(u2, "#")
        fragment == IF h > 0 THEN SubSeq(u2, h + 1, Len(u2)) ELSE <<>>
        u3 == IF h > 0 THEN SubSeq(u2, 1, h - 1) ELSE u2
        q == Find(u3, "?")
        query == IF q > 0 THEN SubSeq(u3, q + 1, Len(u3)) ELSE <<>>
        path == IF q > 0 THEN SubSeq(u3, 1, q - 1) ELSE u3
    IN  [scheme |-> scheme, netloc |-> netloc, path |-> path,
         query |-> query, fragment |-> fragment]

urlunsplit(parts) ==
    LET withNetloc ==
            \/ parts.netloc # <<>>
            \/ /\ parts.scheme # <<>>
               /\ parts.scheme \in UsesNetloc
               /\ Take(parts.path, 2) # <<"/", "/">>
        p1 == IF withNetloc /\ parts.path # <<>> /\ parts.path[1] # "/"
              THEN <<"/">> \o parts.path ELSE parts.path
        u1 == IF withNetloc THEN <<"/", "/">> \o parts.netloc \o p1
              ELSE parts.path
        u2 == IF parts.scheme # <<>> THEN parts.scheme \o <<":">> \o u1 ELSE u1
        u3 == IF parts.query # <<>> THEN u2 \o <<"?">> \o parts.query ELSE u2
    IN  IF parts.fragment # <<>> THEN u3 \o <<"#">> \o parts.fragment ELSE u3

\* The replacement applied to the whole URL instead of parts[1].
NormalizeTarget_WholeString(default_target) ==
    Replace(default_target, "localhost", "127.0.0.1")

\* if self.default_target: self.default_target = urlunsplit((parts[0],
\*     parts[1].replace('localhost', '127.0.0.1'), parts[2], parts[3], parts[4]))
NormalizeTarget(default_target) ==
    IF default_target # <<>>
    THEN LET parts == urlsplit(default_target)
         IN  urlunsplit([parts EXCEPT
                 !.netloc = Replace(parts.netloc, "localhost", "127.0.0.1")])
    ELSE default_target

(***************************************************************************)
(* The option store: the traits of NCHPApp (app.py:47-208) and the three  *)
(* layers traitlets applies to them.  A configuration layer is a mapping  *)
(* from some of the option names to values.                               *)
(***************************************************************************)
Str(t) == <<t>>

OptionNames ==
    {"config_file", "dns_resolver", "public_ip", "public_port",
     "default_target", "api_port", "api_ip", "proxy_streams", "auth_token",
     "nginx_path", "public_ssl_cert", "public_ssl_key", "public_ssl_ciphers",
     "public_ssl_dhparam", "api_ssl_cert", "api_ssl_key", "api_ssl_ciphers",
     "api_ssl_dhparam", "error_path", "error_target",
     "extra_public_nginx_config", "client_max_body_size"}

\* ':'.join([...]) of app.py:117-124 and 145-152, as one token.
DefaultCiphers == Str("ECDHE-ECDSA-AES128-GCM-SHA256:...:DHE-RSA-AES256-GCM-SHA384")

\* The class-level defaults; two of them are read from the environment.
Defaults(env) ==
    [config_file |-> <<>>,
     dns_resolver |-> env.nameserver,
     public_ip |-> Str("0.0.0.0"),
     public_port |-> 8000,
     default_target |-> <<>>,
     api_port |-> 8001,
     api_ip |-> Str("127.0.0.1"),
     proxy_streams |-> env.PROXY_STREAMS,
     auth_token |-> env.CONFIGPROXY_AUTH_TOKEN,
     nginx_path |-> Str("/usr/sbin/nginx"),
     public_ssl_cert |-> <<>>,
     public_ssl_key |-> <<>>,
     public_ssl_ciphers |-> DefaultCiphers,
     public_ssl_dhparam |-> <<>>,
     api_ssl_cert |-> <<>>,
     api_ssl_key |-> <<>>,
     api_ssl_ciphers |-> DefaultCiphers,
     api_ssl_dhparam |-> <<>>,
     error_path |-> <<>>,
     error_target |-> <<>>,
     extra_public_nginx_config |-> <<>>,
     client_max_body_size |-> Str("256M")]

\* Config.merge: the keys of b override those of a.
Merge(a, b) ==
    [k \in DOMAIN a \cup DOMAIN b |-> IF k \in DOMAIN b THEN b[k] ELSE a[k]]

\* Application.update_config: every trait the layer names is set to its value.
update_config(o, layer) ==
    [k \in DOMAIN o |-> IF k \in DOMAIN layer THEN layer[k] ELSE o[k]]

\* load_config_file that applies the file alone, so that it overrides the
\* command line applied before it.
load_config_file_FileWins(o, file, cli) == update_config(o, file)

\* self.load_config_file(self.config_file): traitlets merges cli_config over
\* what the file sets before updating the traits.
load_config_file(o, file, cli) == update_config(o, Merge(file, cli))

(***************************************************************************)
(* build_nginx_conf (app.py:213-289).                                      *)
(***************************************************************************)
\* public_ssl decided by the key instead of the certificate.
public_ssl_FromKey(o) == o.public_ssl_key # <<>>

\* public_ssl = self.public_ssl_cert != ''
public_ssl(o) == o.public_ssl_cert # <<>>

\* api_ssl = self.api_ssl_cert != ''
api_ssl(o) == o.api_ssl_cert # <<>>

\* The listener host passed on as it is.
ListenIp_Raw(ip) == ip

\* if ip == '': '0.0.0.0' else: ip   (for public_ip and for api_ip)
ListenIp(ip) == IF ip = <<>> THEN Str("0.0.0.0") ELSE ip

\* access_log_dest: os.stat('/dev/stdout') says whether it is a socket.
access_log_dest(stdout_is_socket) ==
    IF stdout_is_socket THEN Str("syslog:server=unix:/dev/log,nohostname")
    ELSE Str("/dev/stdout")

\* The context dictionary; o is self after the assignment to default_target.
Context(o, streams, stdout_is_socket) ==
    [proxy_streams |-> streams,
     dns_resolver |-> o.dns_resolver,
     access_log_dest |-> access_log_dest(stdout_is_socket),
     public_port |-> o.public_port,
     public_ip |-> ListenIp(o.public_ip),
     api_port |-> o.api_port,
     api_ip |-> ListenIp(o.api_ip),
     authtoken |-> o.auth_token,
     default_target |-> o.default_target,
     api_ssl |-> api_ssl(o),
     public_ssl |-> public_ssl(o),
     public_ssl_cert |-> o.public_ssl_cert,
     public_ssl_key |-> o.public_ssl_key,
     public_ssl_ciphers |-> o.public_ssl_ciphers,
     public_ssl_dhparam |-> o.public_ssl_dhparam,
     api_ssl_cert |-> o.api_ssl_cert,
     api_ssl_key |-> o.api_ssl_key,
     api_ssl_ciphers |-> o.api_ssl_ciphers,
     api_ssl_dhparam |-> o.api_ssl_dhparam,
     error_path |-> o.error_path,
     error_target |-> o.error_target,
     extra_public_nginx_config |-> o.extra_public_nginx_config,
     client_max_body_size |-> o.client_max_body_size]

\* template.render(**context): the document is a function of the context.
Render(ctx) == [template |-> "nginx.conf", context |-> ctx]

(***************************************************************************)
(* The inputs: the environment, the command line and the config file.     *)
(***************************************************************************)
StreamAlphabet == {"80", "x", "=", ";"}

UrlAlphabet == {"http", "HTTP", "my", "localhost", "8", ":", "/", "?", "#", "@"}

TargetLocalhost == <<"http", ":", "/", "/", "localhost", ":", "8", "/">>

TargetPathLocalhost == <<"http", ":", "/", "/", "my", ":", "8", "/", "localhost">>

StreamsTwice == <<"80", "=", "x", ";", "80", "=", "y">>

StreamsBadTail == <<"80", "=", "x", ";", "y">>

Environs ==
    {[nameserver |-> Str("10.0.0.1"),
      PROXY_STREAMS |-> ps,
      CONFIGPROXY_AUTH_TOKEN |-> Str("secret")] : ps \in {<<>>, <<"90", "=", "z">>}}

\* The options the inputs set, each with the values they may give it.
VariedOptions ==
    {"public_ip", "api_ip", "default_target", "proxy_streams", "nginx_path",
     "public_ssl_cert", "public_ssl_key", "public_ssl_ciphers",
     "public_ssl_dhparam", "api_ssl_cert", "api_ssl_key"}

CfgValues(o) ==
    CASE o = "public_ip" -> {<<>>, Str("10.0.0.5")}
      [] o = "api_ip" -> {<<>>, Str("10.0.0.6")}
      [] o = "nginx_path" -> {Str("/opt/nginx/sbin/nginx")}
      [] o = "default_target" -> {TargetLocalhost, TargetPathLocalhost}
      [] o = "proxy_streams" -> {StreamsTwice, StreamsBadTail}
      [] o \in {"public_ssl_cert", "api_ssl_cert"} -> {Str("/etc/ssl/proxy.crt")}
      [] o \in {"public_ssl_key", "api_ssl_key"} -> {Str("/etc/ssl/proxy.key")}
      [] o \in {"public_ssl_ciphers", "api_ssl_ciphers"} -> {Str("AES128-SHA")}
      [] o \in {"public_ssl_dhparam", "api_ssl_dhparam"} -> {Str("/etc/ssl/dh.pem")}

RECURSIVE LayersOn(_)
LayersOn(K) ==
    IF K = {} THEN {EmptyMap}
    ELSE LET k == CHOOSE x \in K : TRUE
         IN  {Merge(l, [y \in {k} |-> v]) : l \in LayersOn(K \ {k}), v \in CfgValues(k)}

Layers(n) ==
    UNION {LayersOn(K) : K \in {S \in SUBSET VariedOptions : Cardinality(S) <= n}}

ConfigFlags == {EmptyMap, [config_file |-> Str("nchp_config.py")]}

CommandLines == {Merge(l, c) : l \in Layers(MaxCliArgs), c \in ConfigFlags}

ConfigFiles == Layers(MaxFileKeys)

TmpNames == {Str("/tmp/tmpa1b2c3"), Str("/tmp/tmpd4e5f6")}

NoTmp == [exists |-> FALSE, name |-> <<>>, buffer |-> <<>>, disk |-> <<>>]

PythonProc ==
    [image |-> Str("python"), argv |-> <<>>, env |-> "inherited",
     exc |-> <<>>, status |-> <<>>]

NoCall == [fn |-> "none", arg |-> <<>>, ret |-> <<>>, done |-> FALSE]

(***************************************************************************)
(* The life of the process: NCHPApp(), initialize(argv), start().         *)
(***************************************************************************)
Init ==
    /\ pc = "new"
    /\ environ \in Environs
    /\ argv \in CommandLines
    /\ config_file_contents \in ConfigFiles
    /\ opts = Defaults(environ)
    /\ cli_config = EmptyMap
    /\ context = <<>>
    /\ conf = <<>>
    /\ tmp = NoTmp
    /\ proc = PythonProc
    /\ stdout = <<>>
    /\ log = <<>>
    /\ call = NoCall

\* initialize: self.parse_command_line(argv)
Initialize ==
    /\ pc = "new"
    /\ cli_config' = argv
    /\ opts' = update_config(opts, argv)
    /\ log' = Append(log, "parse_command_line")
    /\ pc' = "initialized"
    /\ UNCHANGED <<environ, argv, config_file_contents, context, conf, tmp,
                   proc, stdout, call>>

\* start: if self.config_file != '': self.load_config_file(self.config_file)
StartLoadConfig ==
    /\ pc = "initialized"
    /\ opts.config_file # <<>>
    /\ opts' = load_config_file(opts, config_file_contents, cli_config)
    /\ log' = Append(log, "load_config_file")
    /\ pc' = "loaded"
    /\ UNCHANGED <<environ, argv, config_file_contents, cli_config, context,
                   conf, tmp, proc, stdout, call>>

StartNoConfig ==
    /\ pc = "initialized"
    /\ opts.config_file = <<>>
    /\ pc' = "loaded"
    /\ UNCHANGED <<environ, argv, config_file_contents, opts, cli_config,
                   context, conf, tmp, proc, stdout, log, call>>

\* start: conf = self.build_nginx_conf()
BuildNginxConf ==
    /\ pc = "loaded"
    /\ \E stdout_is_socket \in BOOLEAN :
         LET self == [opts EXCEPT !.default_target = NormalizeTarget(@)]
             parsed == parse_proxy_streams_string(self.proxy_streams)
             ctx == Context(self, parsed.streams, stdout_is_socket)
         IN  /\ opts' = self
             /\ stdout' = stdout \o parsed.printed
             /\ context' = <<ctx>>
             /\ conf' = <<Render(ctx)>>
    /\ log' = Append(log, "build_nginx_conf")
    /\ pc' = "built"
    /\ UNCHANGED <<environ, argv, config_file_contents, cli_config, tmp, proc,
                   call>>

\* start: with NamedTemporaryFile() as f:
OpenTemp ==
    /\ pc = "built"
    /\ \E name \in TmpNames :
         tmp' = [exists |-> TRUE, name |-> name, buffer |-> <<>>, disk |-> <<>>]
    /\ log' = Append(log, "NamedTemporaryFile")
    /\ pc' = "opened"
    /\ UNCHANGED <<environ, argv, config_file_contents, opts, cli_config,
                   context, conf, proc, stdout, call>>

\* start: f.write(conf.encode('utf-8')), into the buffer of the file object
WriteTemp ==
    /\ pc = "opened"
    /\ tmp' = [tmp EXCEPT !.buffer = @ \o conf]
    /\ log' = Append(log, "write")
    /\ pc' = "written"
    /\ UNCHANGED <<environ, argv, config_file_contents, opts, cli_config,
                   context, conf, proc, stdout, call>>

\* The flush left out: the buffer never reaches the file.
FlushTemp_Skipped ==
    /\ pc = "written"
    /\ log' = Append(log, "flush")
    /\ pc' = "flushed"
    /\ UNCHANGED <<environ, argv, config_file_contents, opts, cli_config,
                   context, conf, tmp, proc, stdout, call>>

\* start: f.flush()
FlushTemp ==
    /\ pc = "written"
    /\ tmp' = [tmp EXCEPT !.disk = @ \o tmp.buffer, !.buffer = <<>>]
    /\ log' = Append(log, "flush")
    /\ pc' = "flushed"
    /\ UNCHANGED <<environ, argv, config_file_contents, opts, cli_config,
                   context, conf, proc, stdout, call>>

\* start: os.execle(self.nginx_path, self.nginx_path, '-c', f.name, {})
\* succeeds: the process image is replaced and nothing of start runs again.
ExecOk ==
    /\ pc = "flushed"
    /\ proc' = [proc EXCEPT !.image = opts.nginx_path,
                            !.argv = <<opts.nginx_path, Str("-c"), tmp.name>>,
                            !.env = "empty"]
    /\ log' = Append(log, "execle")
    /\ pc' = "execed"
    /\ UNCHANGED <<environ, argv, config_file_contents, opts, cli_config,
                   context, conf, tmp, stdout, call>>

\* The OSError leaves start with the temporary file still there.
ExecFail_LeavesTemp ==
    /\ pc = "flushed"
    /\ proc' = [proc EXCEPT !.exc = Str("OSError")]
    /\ log' = Append(log, "execle")
    /\ pc' = "raised"
    /\ UNCHANGED <<environ, argv, config_file_contents, opts, cli_config,
                   context, conf, tmp, stdout, call>>

\* os.execle raises OSError (no such file, permission denied): the with
\* block closes the NamedTemporaryFile, which deletes it, and the exception
\* leaves start.
ExecFail ==
    /\ pc = "flushed"
    /\ proc' = [proc EXCEPT !.exc = Str("OSError")]
    /\ tmp' = [tmp EXCEPT !.exists = FALSE, !.buffer = <<>>, !.disk = <<>>]
    /\ log' = Append(log, "execle")
    /\ pc' = "raised"
    /\ UNCHANGED <<environ, argv, config_file_contents, opts, cli_config,
                   context, conf, stdout, call>>

\* The caller of start (nchp/__main__.py) does not handle the exception:
\* the interpreter prints the traceback and exits with status 1.
ExitUncaught ==
    /\ pc = "raised"
    /\ proc' = [proc EXCEPT !.status = <<1>>]
    /\ stdout' = Append(stdout, [text |-> "Traceback", string |-> proc.exc,
                                 error |-> "OSError"])
    /\ pc' = "exited"
    /\ UNCHANGED <<environ, argv, config_file_contents, opts, cli_config,
                   context, conf, tmp, log, call>>

Next ==
    \/ Initialize
    \/ StartLoadConfig
    \/ StartNoConfig
    \/ BuildNginxConf
    \/ OpenTemp
    \/ WriteTemp
    \/ FlushTemp
    \/ ExecOk
    \/ ExecFail
    \/ ExitUncaught

Spec == Init /\ [][Next]_vars

(***************************************************************************)
(* parse_proxy_streams_string alone, on every string of the stream        *)
(* alphabet up to MaxLen tokens.                                          *)
(***************************************************************************)
IdleEnviron ==
    [nameserver |-> Str("10.0.0.1"), PROXY_STREAMS |-> <<>>,
     CONFIGPROXY_AUTH_TOKEN |-> Str("secret")]

InitCall(fn, arg) ==
    /\ pc = "call"
    /\ call = [fn |-> fn, arg |-> arg, ret |-> <<>>, done |-> FALSE]
    /\ environ = IdleEnviron
    /\ argv = EmptyMap
    /\ config_file_contents = EmptyMap
    /\ opts = Defaults(environ)
    /\ cli_config = EmptyMap
    /\ context = <<>>
    /\ conf = <<>>
    /\ tmp = NoTmp
    /\ proc = PythonProc
    /\ stdout = <<>>
    /\ log = <<>>

InitParse ==
    \E n \in 0..MaxLen : \E s \in [1..n -> StreamAlphabet] :
        InitCall("parse_proxy_streams_string", s)

CallParse ==
    /\ pc = "call"
    /\ call.fn = "parse_proxy_streams_string"
    /\ LET r == parse_proxy_streams_string(call.arg)
       IN  /\ call' = [call EXCEPT !.ret = <<r>>, !.done = TRUE]
           /\ stdout' = stdout \o r.printed
    /\ pc' = "returned"
    /\ UNCHANGED <<environ, argv, config_file_contents, opts, cli_config,
                   context, conf, tmp, proc, log>>

SpecParse == InitParse /\ [][CallParse]_vars

(***************************************************************************)
(* The target normalisation alone, on every string of the URL alphabet    *)
(* up to MaxUrlLen tokens and on the URLs of the documented form          *)
(* proto://host[:port] with a path, a query and a fragment.               *)
(***************************************************************************)
StructuredUrls ==
    {s \o <<"/", "/">> \o n \o p \o q \o f :
        s \in {<<>>, <<"http", ":">>, <<"HTTP", ":">>, <<"my", ":">>},
        n \in {<<"localhost">>, <<"my", "localhost">>, <<"localhost", ":", "8">>,
               <<"my", ":", "8">>, <<"localhost", "@", "my">>,
               <<"my", "localhost", ":", "8">>},
        p \in {<<>>, <<"/">>, <<"/", "localhost">>, <<"/", "my", "/", "localhost">>},
        q \in {<<>>, <<"?">>, <<"?", "localhost">>},
        f \in {<<>>, <<"#", "localhost">>}}

InitUrl ==
    \/ \E n \in 0..MaxUrlLen : \E url \in [1..n -> UrlAlphabet] :
           InitCall("NormalizeTarget", url)
    \/ \E url \in StructuredUrls : InitCall("NormalizeTarget", url)

CallNormalize ==
    /\ pc = "call"
    /\ call.fn = "NormalizeTarget"
    /\ call' = [call EXCEPT !.ret = NormalizeTarget(call.arg), !.done = TRUE]
    /\ pc' = "returned"
    /\ UNCHANGED <<environ, argv, config_file_contents, opts, cli_config,
                   context, conf, tmp, proc, stdout, log>>

SpecUrl == InitUrl /\ [][CallNormalize]_vars

(***************************************************************************)
(* Properties of the stream-specification parser (under SpecParse).       *)
(***************************************************************************)
Entries(s) == Split(s, ";")

HasOneEquals(entry) == Count(entry, "=") = 1

WellFormed(s) == \A i \in 1..Len(Entries(s)) : HasOneEquals(Entries(s)[i])

EntryPort(entry) == SubSeq(entry, 1, Find(entry, "=") - 1)

EntryTarget(entry) == SubSeq(entry, Find(entry, "=") + 1, Len(entry))

\* The mapping that sends each port named by the entries to the target of
\* the last entry naming it.
LastWins(entries) ==
    [port \in {EntryPort(entries[i]) : i \in 1..Len(entries)} |->
        LET last == CHOOSE i \in 1..Len(entries) :
                        /\ EntryPort(entries[i]) = port
                        /\ \A j \in (i + 1)..Len(entries) :
                               EntryPort(entries[j]) # port
        IN  EntryTarget(entries[last])]

\* The entries before the first one that does not have exactly one '='.
BeforeFirstBad(s) ==
    LET es == Entries(s)
        bad == CHOOSE i \in 1..Len(es) :
                   /\ ~HasOneEquals(es[i])
                   /\ \A j \in 1..(i - 1) : HasOneEquals(es[j])
    IN  SubSeq(es, 1, bad - 1)

ParseReturned == pc = "returned" /\ call.fn = "parse_proxy_streams_string"

\* C1: for every well-formed stream-specification string (entries separated
\* by ';', each with exactly one '=') parse_proxy_streams_string returns the
\* mapping from each public port to the target of the last entry naming it;
\* for the empty string it returns the empty mapping.
C1_ParseWellFormed ==
    ParseReturned =>
        LET r == call.ret[1]
        IN  /\ WellFormed(call.arg) =>
                  ~r.raised /\ r.streams = LastWins(Entries(call.arg))
            /\ call.arg = <<>> => ~r.raised /\ r.streams = EmptyMap

\* "80=80;80=x" has been parsed to {80: x}.
C1_Witness ==
    /\ ParseReturned
    /\ call.arg = <<"80", "=", "80", ";", "80", "=", "x">>
    /\ DOMAIN call.ret[1].streams = {<<"80">>}
    /\ call.ret[1].streams[<<"80">>] = <<"x">>

\* C2 as stated: parsing a string in which some entry does not have exactly
\* one '=' fails (an error reaches the caller) and no partial mapping comes
\* back as a successful result.
C2_FailsWithFormatError ==
    (ParseReturned /\ call.arg # <<>> /\ ~WellFormed(call.arg)) =>
        call.ret[1].raised

\* C2 as amended: parsing a string in which some entry does not have exactly
\* one '=' does not fail; the call prints one "Badly formatted proxy streams
\* string" message that names the whole string and the unpacking error, and
\* returns normally the last-wins mapping of the entries before the first
\* offending entry.
C2_PartialMappingReturned ==
    (ParseReturned /\ ~WellFormed(call.arg)) =>
        LET r == call.ret[1]
        IN  /\ ~r.raised
            /\ r.streams = LastWins(BeforeFirstBad(call.arg))
            /\ Len(r.printed) = 1
            /\ r.printed[1].string = call.arg
            /\ r.printed[1].error \in {"not enough values to unpack",
                                       "too many values to unpack"}
            /\ stdout = r.printed

\* "80=x;x" has come back as {80: x}, with the message printed.
C2_Witness ==
    /\ ParseReturned
    /\ call.arg = <<"80", "=", "x", ";", "x">>
    /\ ~call.ret[1].raised
    /\ DOMAIN call.ret[1].streams = {<<"80">>}
    /\ call.ret[1].streams[<<"80">>] = <<"x">>
    /\ Len(stdout) = 1

(***************************************************************************)
(* Properties of the target normalisation (under SpecUrl).                *)
(***************************************************************************)
DigitTokens == {"8"}

\* The index of the last token c of s, 0 when absent.
FindLast(s, c) ==
    IF \E i \in 1..Len(s) : s[i] = c
    THEN CHOOSE i \in 1..Len(s) : s[i] = c /\ \A j \in (i + 1)..Len(s) : s[j] # c
    ELSE 0

\* SplitResult._hostinfo: what follows the last '@'.
HostInfo(netloc) == SubSeq(netloc, FindLast(netloc, "@") + 1, Len(netloc))

\* SplitResult.hostname
Hostname(netloc) ==
    LET hostinfo == HostInfo(netloc)
        c == Find(hostinfo, ":")
    IN  Lower(IF c = 0 THEN hostinfo ELSE SubSeq(hostinfo, 1, c - 1))

\* SplitResult.port: the digits after the ':' of the host, <<>> when there
\* is no port or it is not a number.
Port(netloc) ==
    LET hostinfo == HostInfo(netloc)
        c == Find(hostinfo, ":")
        text == IF c = 0 THEN <<>> ELSE SubSeq(hostinfo, c + 1, Len(hostinfo))
    IN  IF \A i \in 1..Len(text) : text[i] \in DigitTokens THEN text ELSE <<>>

NormalizeReturned == pc = "returned" /\ call.fn = "NormalizeTarget"

\* C3 as stated: the host of the default target is rewritten to 127.0.0.1
\* only when it is exactly 'localhost'; a host that merely contains
\* 'localhost' is left unchanged, and an empty target stays empty.
C3_OnlyExactHostRewritten ==
    NormalizeReturned =>
        LET before == urlsplit(call.arg)
            after == urlsplit(call.ret)
            host == Hostname(before.netloc)
        IN  /\ host = <<"localhost">> => Hostname(after.netloc) = <<"127.0.0.1">>
            /\ (host # <<"localhost">> /\ Count(host, "localhost") > 0) =>
                   after.netloc = before.netloc
            /\ call.arg = <<>> => call.ret = <<>>

Built == context # <<>>

\* C5: for each listener, TLS is on in the rendering context if and only if
\* that listener's certificate path is non-empty, whatever the key, the
\* cipher list and the dhparam are.
C5_TlsIffCertificate ==
    Built =>
        /\ context[1].public_ssl <=> (opts.public_ssl_cert # <<>>)
        /\ context[1].api_ssl <=> (opts.api_ssl_cert # <<>>)
        /\ context[1].public_ssl_cert = opts.public_ssl_cert
        /\ context[1].api_ssl_cert = opts.api_ssl_cert

\* The public listener has a certificate and TLS on; the API listener has a
\* key and no certificate, and TLS off.
C5_Witness ==
    /\ Built
    /\ opts.public_ssl_cert # <<>>
    /\ context[1].public_ssl
    /\ opts.api_ssl_cert = <<>>
    /\ opts.api_ssl_key # <<>>
    /\ ~context[1].api_ssl

\* The value the three layers give option o, d being the defaults: the
\* command line, else the config file when its path was supplied, else the
\* default.
Resolved(o, d) ==
    IF o \in DOMAIN argv THEN argv[o]
    ELSE IF "config_file" \in DOMAIN argv /\ o \in DOMAIN config_file_contents
    THEN config_file_contents[o]
    ELSE d[o]

\* C6: once initialize has parsed the command line and start has loaded the
\* config file (only when a path was supplied), every option set on the
\* command line has its command-line value even if the file sets it too,
\* every option set only in the file has the file's value, and every other
\* option has its default.
C6_Precedence ==
    /\ pc = "initialized" =>
          LET d == Defaults(environ)
          IN  \A o \in OptionNames :
                  opts[o] = IF o \in DOMAIN argv THEN argv[o] ELSE d[o]
    /\ pc = "loaded" =>
          LET d == Defaults(environ)
          IN  \A o \in OptionNames : opts[o] = Resolved(o, d)

\* The command line and the loaded file disagree on public_ip, and the
\* command line has won.
C6_Witness ==
    /\ pc = "loaded"
    /\ "config_file" \in DOMAIN argv
    /\ "public_ip" \in DOMAIN argv
    /\ "public_ip" \in DOMAIN config_file_contents
    /\ argv["public_ip"] # config_file_contents["public_ip"]
    /\ opts.public_ip = argv["public_ip"]

\* C7: start loads the config file (if any), synthesizes the document,
\* writes the whole document to a newly created temporary file and flushes
\* it, and only then replaces the process image by the engine binary with
\* the arguments '-c' and the temporary file's path; the file still exists
\* when exec is called.
C7_LaunchOrder ==
    /\ tmp.exists => conf # <<>>
    /\ pc = "execed" =>
          /\ log = <<"parse_command_line">>
                   \o (IF opts.config_file # <<>> THEN <<"load_config_file">>
                       ELSE <<>>)
                   \o <<"build_nginx_conf", "NamedTemporaryFile", "write",
                        "flush", "execle">>
          /\ conf = <<Render(context[1])>>
          /\ tmp.exists
          /\ tmp.name \in TmpNames
          /\ tmp.disk = conf
          /\ proc.image = opts.nginx_path
          /\ proc.argv = <<opts.nginx_path, Str("-c"), tmp.name>>

\* nginx has been exec'ed on the flushed document, after a config file was
\* loaded.
C7_Witness ==
    /\ pc = "execed"
    /\ opts.config_file # <<>>
    /\ tmp.exists
    /\ tmp.disk = conf
    /\ proc.argv[3] = tmp.name

\* C8: when replacing the process image fails, start does not return
\* normally: the OSError is raised, the process ends with a non-zero exit
\* status, no engine runs on the temporary file, and the file is released.
C8_LaunchFailure ==
    /\ pc \in {"raised", "exited"} =>
          /\ proc.exc = Str("OSError")
          /\ proc.image = Str("python")
          /\ proc.argv = <<>>
          /\ ~tmp.exists
    /\ pc = "exited" => (proc.status # <<>> /\ proc.status # <<0>>)

\* The exec has failed and the process has exited with status 1, the
\* temporary file gone.
C8_Witness ==
    /\ pc = "exited"
    /\ log[Len(log)] = "execle"
    /\ proc.status = <<1>>
    /\ ~tmp.exists

\* C9 as stated: build_nginx_conf leaves every option of the application
\* object as it was before the call.
C9_BuildLeavesOptions == [][pc = "loaded" => opts' = opts]_vars

\* C10: for each listener, an empty host option is 0.0.0.0 in the rendering
\* context, and a non-empty one is passed unchanged.
C10_ListenHost ==
    Built =>
        /\ context[1].public_ip =
               IF opts.public_ip = <<>> THEN Str("0.0.0.0") ELSE opts.public_ip
        /\ context[1].api_ip =
               IF opts.api_ip = <<>> THEN Str("0.0.0.0") ELSE opts.api_ip

\* The public host was '' and is rendered as 0.0.0.0; the API host was set
\* and is rendered as given.
C10_Witness ==
    /\ Built
    /\ opts.public_ip = <<>>
    /\ context[1].public_ip = Str("0.0.0.0")
    /\ opts.api_ip = Str("10.0.0.6")
    /\ context[1].api_ip = Str("10.0.0.6")

=============================================================================
